---- MODULE Spec2Model ----
(***************************************************************************)
(* The dependency download cycle of compiler-cli/src/dependencies.rs:      *)
(* get_manifest, remove_extra_packages, download_hex_packages and the two  *)
(* write_to_disc calls, run against three stores on disc: manifest.toml,   *)
(* packages.toml and one package directory per package name.               *)
(***************************************************************************)
EXTENDS Integers, Sequences, FiniteSets, TLC

\* ------------------------------------------------------------------ bounds
MaxVersion == 2
MaxCycles == 2

\* ------------------------------------------------------------- data model
Names == {"a", "b"}
Versions == 1..MaxVersion
NoVersion == 0
NoRange == ""

\* hexpm::version::Range is a wrapper of its source string; equality and
\* serialisation are those of the string.
ExactRange(v) == "== " \o ToString(v)
AnyRange == ">= 1"
Ranges == {ExactRange(v) : v \in Versions} \cup {AnyRange}
Satisfies(v, r) == r = AnyRange \/ r = ExactRange(v)

\* HashMap<String, Range> and HashMap<String, Version>: a name maps to a
\* value or has no entry.
ReqMaps == [Names -> Ranges \cup {NoRange}]
PkgMaps == [Names -> Versions \cup {NoVersion}]
EmptyPkgs == [n \in Names |-> NoVersion]
EmptyReqs == [n \in Names |-> NoRange]
Keys(map, none) == {n \in Names : map[n] # none}

Manifest == [requirements : ReqMaps, packages : PkgMaps]
LocalPackages == [packages : PkgMaps]

\* Version::to_string and Version::parse
VersionToString(v) == ToString(v) \o ".0.0"
IsVersionString(s) == \E v \in Versions : VersionToString(v) = s
ParseVersion(s) == CHOOSE v \in Versions : VersionToString(v) = s

\* The orders in which a HashMap may yield the entries of a key set.
Orders(S) == {q \in [1..Cardinality(S) -> S] : \A i, j \in 1..Cardinality(S) : q[i] = q[j] => i = j}
ToSet(q) == {q[i] : i \in 1..Len(q)}

\* ------------------------------------------------------------ file format
Line(k, key, val) == [k |-> k, key |-> key, val |-> val]
Comment(text) == Line("comment", "", text)
Blank == Line("blank", "", "")
Table(name) == Line("table", name, "")
Entry(key, val) == Line("entry", key, val)
Junk == Line("junk", "", "")

NoFile == [exists |-> FALSE, lines |-> <<>>]
File(lines) == [exists |-> TRUE, lines |-> lines]

\* A header written as plain text, without the comment marker.
ManifestHeaderBare == <<Junk, Junk, Blank>>

ManifestHeader == <<Comment("This file was generated by Gleam"), Comment("You typically do not need to edit this file manually"), Blank>>

RequirementLines(reqs, order) == [i \in 1..Len(order) |-> Entry(order[i], reqs[order[i]])]
PackageLines(pkgs, order) == [i \in 1..Len(order) |-> Entry(order[i], VersionToString(pkgs[order[i]]))]

\* toml::to_vec(&Manifest): the two tables, each with its entries in the
\* order the HashMap yields them.
ManifestToml(m, ro, po) == <<Table("requirements")>> \o RequirementLines(m.requirements, ro) \o <<Table("packages")>> \o PackageLines(m.packages, po)
\* toml::to_string(&LocalPackages)
LocalPackagesToml(l, po) == <<Table("packages")>> \o PackageLines(l.packages, po)

\* toml::from_str into a struct with the fields `fields`: comments and
\* blank lines are skipped, an entry belongs to the last table header
\* before it, a table that is no field of the struct is ignored, a table
\* or a key given twice and a value of the wrong type are errors.
Scanned == [ok |-> TRUE, seen |-> {}, requirements |-> EmptyReqs, packages |-> EmptyPkgs, order |-> <<>>]
Failed(acc) == [acc EXCEPT !.ok = FALSE]
RECURSIVE Scan(_, _, _, _)
Scan(lines, fields, table, acc) ==
    IF lines = <<>> THEN acc
    ELSE LET l == Head(lines)
             rest == Tail(lines)
         IN  IF l.k \in {"comment", "blank"} THEN Scan(rest, fields, table, acc)
             ELSE IF l.k = "table" THEN
                 IF l.key \in acc.seen THEN Failed(acc)
                 ELSE Scan(rest, fields, l.key, [acc EXCEPT !.seen = @ \cup {l.key}])
             ELSE IF l.k = "entry" THEN
                 IF table \notin fields THEN Scan(rest, fields, table, acc)
                 ELSE IF l.key \notin Names THEN Failed(acc)
                 ELSE IF table = "requirements" THEN
                     IF acc.requirements[l.key] = NoRange /\ l.val \in Ranges
                     THEN Scan(rest, fields, table, [acc EXCEPT !.requirements[l.key] = l.val])
                     ELSE Failed(acc)
                 ELSE
                     IF acc.packages[l.key] = NoVersion /\ IsVersionString(l.val)
                     THEN Scan(rest, fields, table, [acc EXCEPT !.packages[l.key] = ParseVersion(l.val), !.order = Append(@, l.key)])
                     ELSE Failed(acc)
             ELSE Failed(acc)
Deserialised(file, fields) == LET acc == Scan(file.lines, fields, "", Scanned) IN IF fields \subseteq acc.seen THEN acc ELSE Failed(acc)

\* The package names in the order of their lines in a file.
PackageOrder(file) == Deserialised(file, {"packages"}).order

\* The result of a parse is <<>> for a parse error and <<value>> otherwise.
ParseManifest(file) == LET acc == Deserialised(file, {"requirements", "packages"}) IN
    IF acc.ok THEN <<[requirements |-> acc.requirements, packages |-> acc.packages]>> ELSE <<>>
ParseLocalPackages(file) == LET acc == Deserialised(file, {"packages"}) IN
    IF acc.ok THEN <<[packages |-> acc.packages]>> ELSE <<>>

\* The files write_to_disc can produce for a value.
ManifestFiles(m) == {File(ManifestHeader \o ManifestToml(m, ro, po)) : ro \in Orders(Keys(m.requirements, NoRange)), po \in Orders(Keys(m.packages, NoVersion))}
LocalPackagesFiles(l) == {File(LocalPackagesToml(l, po)) : po \in Orders(Keys(l.packages, NoVersion))}

\* An extra_local_packages that only looks for names the manifest lacks.
extra_local_packages_by_name(l, m, order) ==
    LET stale == SelectSeq(order, LAMBDA n : m.packages[n] = NoVersion)
    IN [i \in 1..Len(stale) |-> <<stale[i], VersionToString(l.packages[stale[i]])>>]

\* ------------------------------------------------------- pure operations
\* LocalPackages::extra_local_packages: the vector built by iterating the
\* ledger's HashMap in the order `order`.
extra_local_packages(l, m, order) ==
    LET stale == SelectSeq(order, LAMBDA n : m.packages[n] # l.packages[n])
    IN [i \in 1..Len(stale) |-> <<stale[i], VersionToString(l.packages[stale[i]])>>]

\* LocalPackages::from_manifest
from_manifest(m) == [packages |-> m.packages]

\* hex::resolve_versions: for every required name the newest published
\* version inside the range; <<>> when some name has none.
Published(reg, n) == 1..reg[n]
Candidates(reqs, reg, n) == {v \in Published(reg, n) : Satisfies(v, reqs[n])}
Newest(S) == CHOOSE v \in S : \A w \in S : w <= v
Solvable(reqs, reg) == \A n \in Keys(reqs, NoRange) : Candidates(reqs, reg, n) # {}
hex_resolve_versions(reqs, reg) ==
    IF Solvable(reqs, reg)
    THEN <<[n \in Names |-> IF reqs[n] = NoRange THEN NoVersion ELSE Newest(Candidates(reqs, reg, n))]>>
    ELSE <<>>

\* ------------------------------------------------------------------ state
VARIABLES
    config,         \* config.all_dependencies(): the current requirement set
    registry,       \* newest version of each package published on Hex
    manifestFile,   \* paths::manifest_path()
    packagesFile,   \* paths::packages_toml()
    dirs,           \* paths::build_deps_package(name): version unpacked there
    pc,             \* position of the running download(), "idle" if none
    result,         \* how the last download() ended
    manifest,       \* download's `manifest`: <<>> before get_manifest returns
    extra,          \* remove_extra_packages: pairs still to visit
    pending,        \* download_hex_packages: packages not yet ensured
    count,          \* download_hex_packages: packages newly fetched
    \* history of the running cycle
    manifestFile0, packagesFile0, dirs0,   \* the stores when the cycle began
    stored,         \* the manifest get_manifest read from disc, <<>> if none
    resolverCalls,  \* calls of resolve_versions in this cycle
    lookups,        \* PackageFetcher::get_dependencies calls in this cycle
    extraAll,       \* the vector extra_local_packages returned
    deleted,        \* names whose directory delete_dir removed
    deleteFailed,   \* names whose delete_dir returned an error
    downloaded,     \* names download_hex_packages fetched
    acquireFailed,  \* names whose download, verification or unpacking failed
    crashedAt,      \* pc at which the process died
    \* history across cycles
    touched,        \* what was edited from outside since the last cycle ended
    prev,           \* the previous cycle: its result and what was edited after it
    cycles,
    other           \* a second download() running against the same project, if any

vars == <<config, registry, manifestFile, packagesFile, dirs, pc, result, manifest, extra, pending, count,
          manifestFile0, packagesFile0, dirs0, stored, resolverCalls, lookups, extraAll, deleted, deleteFailed,
          downloaded, acquireFailed, crashedAt, touched, prev, cycles, other>>

world == <<config, registry, other>>
stores == <<manifestFile, packagesFile, dirs>>
locals == <<manifest, extra, pending, count>>
snapshot == <<manifestFile0, packagesFile0, dirs0>>
cycleHistory == <<stored, resolverCalls, lookups, extraAll, deleted, deleteFailed, downloaded, acquireFailed>>
bookkeeping == <<crashedAt, touched, prev, cycles>>

\* No second invocation.
NoOther == [pc |-> "absent", result |-> "none", config |-> EmptyReqs, manifest |-> <<>>]

NoPrev == [result |-> "other", edited |-> "other", fresh |-> FALSE]

\* A project is either new, or an earlier download() installed version 1 of
\* every package and gleam.toml may have been edited since.
InstalledManifest == [requirements |-> [n \in Names |-> ExactRange(1)], packages |-> [n \in Names |-> 1]]
InstalledOrder == CHOOSE q \in Orders(Names) : TRUE

Init ==
    /\ config \in ReqMaps
    /\ registry = [n \in Names |-> IF n = "a" THEN MaxVersion ELSE 1]
    /\ other = NoOther
    /\ \/ manifestFile = NoFile /\ packagesFile = NoFile /\ dirs = EmptyPkgs
       \/ /\ manifestFile = File(ManifestHeader \o ManifestToml(InstalledManifest, InstalledOrder, InstalledOrder))
          /\ packagesFile = File(LocalPackagesToml(from_manifest(InstalledManifest), InstalledOrder))
          /\ dirs = InstalledManifest.packages
    /\ pc = "idle" /\ result = "none"
    /\ manifest = <<>> /\ extra = <<>> /\ pending = {} /\ count = 0
    /\ manifestFile0 = manifestFile /\ packagesFile0 = packagesFile /\ dirs0 = dirs
    /\ stored = <<>> /\ resolverCalls = 0 /\ lookups = 0 /\ extraAll = <<>>
    /\ deleted = {} /\ deleteFailed = {} /\ downloaded = {} /\ acquireFailed = {}
    /\ crashedAt = "" /\ touched = {} /\ prev = NoPrev /\ cycles = 0

\* What a later invocation can tell of an earlier one.
Outcome(r) == IF r \in {"none", "ok", "err_acquire"} THEN r ELSE "other"

\* What an invocation keeps of the one before it: whether that one
\* succeeded or failed in acquisition, whether it began without
\* manifest.toml, and what was edited in between.
Earlier(r, edits, fileBefore) ==
    IF r \notin {"ok", "err_acquire"} THEN NoPrev
    ELSE [result |-> r,
          edited |-> IF edits = {} THEN "nothing" ELSE IF edits = {"config"} THEN "config" ELSE "other",
          fresh |-> (r = "ok" /\ edits = {} /\ ~fileBefore.exists)]

\* download() returns: the process is idle again.
Return(r) == pc' = "idle" /\ result' = r

\* ----------------------------------------------------------- download()
\* A new invocation of the command: fresh locals, the stores as they are.
Invoke ==
    /\ pc = "idle" /\ cycles < MaxCycles
    /\ cycles' = cycles + 1
    /\ manifest' = <<>> /\ extra' = <<>> /\ pending' = {} /\ count' = 0
    /\ manifestFile0' = manifestFile /\ packagesFile0' = packagesFile /\ dirs0' = dirs
    /\ stored' = <<>> /\ resolverCalls' = 0 /\ lookups' = 0 /\ extraAll' = <<>>
    /\ deleted' = {} /\ deleteFailed' = {} /\ downloaded' = {} /\ acquireFailed' = {}
    /\ crashedAt' = "" /\ touched' = {}
    /\ prev' = Earlier(Outcome(result), touched, manifestFile0)
    /\ UNCHANGED <<world, stores>>

\* Lines 20-36: the project config is read and the runtime started.
DownloadBegin == Invoke /\ pc' = "get_manifest" /\ result' = "running"

\* Line 31: root_config()? fails.
DownloadConfigError == Invoke /\ Return("err_config")

\* resolve_versions (lines 206-217) called from get_manifest: the solver
\* looks every required package up once; it fails when no version set
\* satisfies the requirements or when a lookup fails (network, signature).
ResolveVersionsOk ==
    /\ hex_resolve_versions(config, registry) # <<>>
    /\ manifest' = <<[requirements |-> config, packages |-> hex_resolve_versions(config, registry)[1]]>>
    /\ resolverCalls' = resolverCalls + 1
    /\ lookups' = lookups + Cardinality(Keys(config, NoRange))
    /\ pc' = "remove_extra_packages" /\ UNCHANGED result

\* A resolve_versions that returns the packages it could resolve.
ResolveVersionsBestEffort ==
    /\ \/ hex_resolve_versions(config, registry) = <<>> /\ lookups' = lookups + Cardinality(Keys(config, NoRange))
       \/ \E k \in 1..Cardinality(Keys(config, NoRange)) : lookups' = lookups + k
    /\ resolverCalls' = resolverCalls + 1
    /\ manifest' = <<[requirements |-> config,
                      packages |-> [n \in Names |-> IF config[n] # NoRange /\ Candidates(config, registry, n) # {}
                                                    THEN Newest(Candidates(config, registry, n)) ELSE NoVersion]]>>
    /\ pc' = "remove_extra_packages" /\ UNCHANGED result

ResolveVersionsErr ==
    /\ \/ hex_resolve_versions(config, registry) = <<>> /\ lookups' = lookups + Cardinality(Keys(config, NoRange))
       \/ \E k \in 1..Cardinality(Keys(config, NoRange)) : lookups' = lookups + k
    /\ resolverCalls' = resolverCalls + 1
    /\ Return("err_resolve") /\ UNCHANGED manifest

\* get_manifest, lines 187-190: no manifest.toml, resolve anew.
GetManifestNotPresent ==
    /\ pc = "get_manifest" /\ ~manifestFile.exists
    /\ (ResolveVersionsOk \/ ResolveVersionsErr)
    /\ UNCHANGED <<world, stores, extra, pending, count, snapshot, stored, extraAll, deleted, deleteFailed, downloaded, acquireFailed, bookkeeping>>

\* A get_manifest that takes a manifest it cannot parse for a missing one.
GetManifestParseErrorAsAbsent ==
    /\ pc = "get_manifest" /\ manifestFile.exists /\ ParseManifest(manifestFile) = <<>>
    /\ (ResolveVersionsOk \/ ResolveVersionsErr)
    /\ UNCHANGED <<world, stores, extra, pending, count, snapshot, stored, extraAll, deleted, deleteFailed, downloaded, acquireFailed, bookkeeping>>

\* get_manifest, line 192 with Manifest::read_from_disc (lines 79-90):
\* manifest.toml exists and does not parse.
GetManifestParseError ==
    /\ pc = "get_manifest" /\ manifestFile.exists /\ ParseManifest(manifestFile) = <<>>
    /\ Return("err_parse_manifest")
    /\ UNCHANGED <<world, stores, locals, snapshot, cycleHistory, bookkeeping>>

\* Line 82: fs::read fails.
GetManifestReadError ==
    /\ pc = "get_manifest" /\ manifestFile.exists
    /\ Return("err_read_manifest")
    /\ UNCHANGED <<world, stores, locals, snapshot, cycleHistory, bookkeeping>>

\* A comparison with the condition inverted.
UpToDateInverted(m) == m.requirements # config

\* A comparison of the required names without their constraints.
UpToDateByName(m) == Keys(m.requirements, NoRange) = Keys(config, NoRange)

\* Line 196: the comparison of the stored requirements with the config.
UpToDate(m) == m.requirements = config

\* get_manifest, lines 196-198: the stored manifest is returned unmodified.
GetManifestUpToDate ==
    /\ pc = "get_manifest" /\ manifestFile.exists /\ ParseManifest(manifestFile) # <<>>
    /\ UpToDate(ParseManifest(manifestFile)[1])
    /\ stored' = ParseManifest(manifestFile)
    /\ manifest' = ParseManifest(manifestFile)
    /\ pc' = "remove_extra_packages"
    /\ UNCHANGED <<world, stores, result, extra, pending, count, snapshot, resolverCalls, lookups, extraAll, deleted, deleteFailed, downloaded, acquireFailed, bookkeeping>>

\* get_manifest, lines 199-203: the stored manifest is outdated.
GetManifestOutdated ==
    /\ pc = "get_manifest" /\ manifestFile.exists /\ ParseManifest(manifestFile) # <<>>
    /\ ~UpToDate(ParseManifest(manifestFile)[1])
    /\ stored' = ParseManifest(manifestFile)
    /\ (ResolveVersionsOk \/ ResolveVersionsErr)
    /\ UNCHANGED <<world, stores, extra, pending, count, snapshot, extraAll, deleted, deleteFailed, downloaded, acquireFailed, bookkeeping>>

\* A download that records the new state before the packages are fetched.
AfterPruneWriteFirst(rest) ==
    IF rest = <<>>
    THEN pc' = "manifest_writer" /\ pending' = pending
    ELSE pc' = "prune" /\ pending' = pending

\* ------------------------------------------------ remove_extra_packages
\* After the last pair of the loop the function returns Ok (line 69) and
\* download goes on to download_hex_packages (lines 43-46).
AfterPrune(rest) ==
    IF rest = <<>>
    THEN pc' = "download_hex_packages" /\ pending' = Keys(manifest[1].packages, NoVersion)
    ELSE pc' = "prune" /\ pending' = pending

\* A remove_extra_packages that takes a missing packages.toml for an error.
RemoveExtraNoLedgerIsError ==
    /\ pc = "remove_extra_packages" /\ ~packagesFile.exists
    /\ Return("err_read_ledger")
    /\ UNCHANGED <<world, stores, locals, snapshot, cycleHistory, bookkeeping>>

\* Lines 58-61 with LocalPackages::read (lines 124-128): no packages.toml.
RemoveExtraNoLedger ==
    /\ pc = "remove_extra_packages" /\ ~packagesFile.exists
    /\ AfterPrune(<<>>)
    /\ UNCHANGED <<world, stores, result, manifest, extra, count, snapshot, cycleHistory, bookkeeping>>

\* LocalPackages::read, lines 129-135: packages.toml does not parse.
RemoveExtraParseError ==
    /\ pc = "remove_extra_packages" /\ packagesFile.exists /\ ParseLocalPackages(packagesFile) = <<>>
    /\ Return("err_parse_ledger")
    /\ UNCHANGED <<world, stores, locals, snapshot, cycleHistory, bookkeeping>>

\* Line 129: fs::read fails.
RemoveExtraReadError ==
    /\ pc = "remove_extra_packages" /\ packagesFile.exists
    /\ Return("err_read_ledger")
    /\ UNCHANGED <<world, stores, locals, snapshot, cycleHistory, bookkeeping>>

\* Lines 58-62: the ledger is read and extra_local_packages evaluated.
RemoveExtraRead ==
    /\ pc = "remove_extra_packages" /\ packagesFile.exists /\ ParseLocalPackages(packagesFile) # <<>>
    /\ LET l == ParseLocalPackages(packagesFile)[1] IN
       \E order \in Orders(Keys(l.packages, NoVersion)) :
          /\ extraAll' = extra_local_packages(l, manifest[1], order)
          /\ extra' = extraAll'
          /\ AfterPrune(extraAll')
    /\ UNCHANGED <<world, stores, result, manifest, count, snapshot, stored, resolverCalls, lookups, deleted, deleteFailed, downloaded, acquireFailed, bookkeeping>>

\* A loop without the path.exists() test: an absent directory is passed to
\* delete_dir.
PruneSkipDeleteAbsent ==
    /\ pc = "prune" /\ extra # <<>>
    /\ dirs[extra[1][1]] = NoVersion
    /\ deleted' = deleted \cup {extra[1][1]}
    /\ extra' = Tail(extra)
    /\ AfterPrune(Tail(extra))
    /\ UNCHANGED <<world, stores, result, manifest, count, snapshot, stored, resolverCalls, lookups, extraAll, deleteFailed, downloaded, acquireFailed, bookkeeping>>

\* Lines 62-64: path.exists() is false, nothing to delete for this pair.
PruneSkip ==
    /\ pc = "prune" /\ extra # <<>>
    /\ dirs[extra[1][1]] = NoVersion
    /\ extra' = Tail(extra)
    /\ AfterPrune(Tail(extra))
    /\ UNCHANGED <<world, stores, result, manifest, count, snapshot, cycleHistory, bookkeeping>>

\* A remove_extra_packages that leaves the directory in place.
PruneDeleteNothing ==
    /\ pc = "prune" /\ extra # <<>>
    /\ dirs[extra[1][1]] # NoVersion
    /\ extra' = Tail(extra)
    /\ AfterPrune(Tail(extra))
    /\ UNCHANGED <<world, stores, result, manifest, count, snapshot, cycleHistory, bookkeeping>>

\* Lines 64-67: the directory exists and fs::delete_dir removes it.
PruneDelete ==
    /\ pc = "prune" /\ extra # <<>>
    /\ dirs[extra[1][1]] # NoVersion
    /\ dirs' = [dirs EXCEPT ![extra[1][1]] = NoVersion]
    /\ deleted' = deleted \cup {extra[1][1]}
    /\ extra' = Tail(extra)
    /\ AfterPrune(Tail(extra))
    /\ UNCHANGED <<world, manifestFile, packagesFile, result, manifest, count, snapshot, stored, resolverCalls, lookups, extraAll, deleteFailed, downloaded, acquireFailed, bookkeeping>>

\* A remove_extra_packages that logs a failed delete_dir and goes on.
PruneDeleteErrorLogged ==
    /\ pc = "prune" /\ extra # <<>>
    /\ dirs[extra[1][1]] # NoVersion
    /\ deleteFailed' = deleteFailed \cup {extra[1][1]}
    /\ extra' = Tail(extra)
    /\ AfterPrune(Tail(extra))
    /\ UNCHANGED <<world, stores, result, manifest, count, snapshot, stored, resolverCalls, lookups, extraAll, deleted, downloaded, acquireFailed, bookkeeping>>

\* Line 66: fs::delete_dir returns an error, `?` returns it from
\* remove_extra_packages and line 41 returns it from download.
PruneDeleteError ==
    /\ pc = "prune" /\ extra # <<>>
    /\ dirs[extra[1][1]] # NoVersion
    /\ deleteFailed' = deleteFailed \cup {extra[1][1]}
    /\ Return("err_delete")
    /\ UNCHANGED <<world, stores, locals, snapshot, stored, resolverCalls, lookups, extraAll, deleted, downloaded, acquireFailed, bookkeeping>>

\* ------------------------------------------------ download_hex_packages
\* One package of the batch: its directory already holds this version.
DownloadSkip ==
    /\ pc = "download_hex_packages"
    /\ \E n \in pending :
          /\ dirs[n] = manifest[1].packages[n]
          /\ pending' = pending \ {n}
    /\ UNCHANGED <<world, stores, pc, result, manifest, extra, count, snapshot, cycleHistory, bookkeeping>>

\* One package of the batch is fetched, verified and unpacked.
DownloadPackage ==
    /\ pc = "download_hex_packages"
    /\ \E n \in pending :
          /\ dirs[n] # manifest[1].packages[n]
          /\ dirs' = [dirs EXCEPT ![n] = manifest[1].packages[n]]
          /\ downloaded' = downloaded \cup {n}
          /\ pending' = pending \ {n}
    /\ count' = count + 1
    /\ UNCHANGED <<world, manifestFile, packagesFile, pc, result, manifest, extra, snapshot, stored, resolverCalls, lookups, extraAll, deleted, deleteFailed, acquireFailed, bookkeeping>>

\* A download that drops the error of download_hex_packages and goes on.
DownloadErrorIgnored ==
    /\ pc = "download_hex_packages"
    /\ \E n \in pending :
          /\ dirs[n] # manifest[1].packages[n]
          /\ acquireFailed' = acquireFailed \cup {n}
    /\ pc' = "manifest_writer"
    /\ UNCHANGED <<world, stores, result, locals, snapshot, stored, resolverCalls, lookups, extraAll, deleted, deleteFailed, downloaded, bookkeeping>>

\* Lines 45-46: one package fails (network, signature, extraction), the
\* batch fails and `?` returns the error from download.
DownloadError ==
    /\ pc = "download_hex_packages"
    /\ \E n \in pending :
          /\ dirs[n] # manifest[1].packages[n]
          /\ acquireFailed' = acquireFailed \cup {n}
    /\ Return("err_acquire")
    /\ UNCHANGED <<world, stores, locals, snapshot, stored, resolverCalls, lookups, extraAll, deleted, deleteFailed, downloaded, bookkeeping>>

\* Line 46: every package of the batch succeeded.
DownloadDone ==
    /\ pc = "download_hex_packages" /\ pending = {}
    /\ pc' = "manifest_writer"
    /\ UNCHANGED <<world, stores, result, locals, snapshot, cycleHistory, bookkeeping>>

\* ------------------------------------------------------------ persistence
\* Manifest::write_to_disc, line 95: fs::writer creates the file anew.
ManifestOpenWriter ==
    /\ pc = "manifest_writer"
    /\ manifestFile' = File(<<>>)
    /\ pc' = "manifest_header"
    /\ UNCHANGED <<world, packagesFile, dirs, result, locals, snapshot, cycleHistory, bookkeeping>>

\* Lines 96-102: the header comment is written.
ManifestWriteHeader ==
    /\ pc = "manifest_header"
    /\ manifestFile' = File(manifestFile.lines \o ManifestHeader)
    /\ pc' = "manifest_body"
    /\ UNCHANGED <<world, packagesFile, dirs, result, locals, snapshot, cycleHistory, bookkeeping>>

\* Line 103: the serialised manifest (line 94) is written.
ManifestWriteBody ==
    /\ pc = "manifest_body"
    /\ \E ro \in Orders(Keys(manifest[1].requirements, NoRange)), po \in Orders(Keys(manifest[1].packages, NoVersion)) :
          manifestFile' = File(manifestFile.lines \o ManifestToml(manifest[1], ro, po))
    /\ pc' = "packages_write"
    /\ UNCHANGED <<world, packagesFile, dirs, result, locals, snapshot, cycleHistory, bookkeeping>>

\* Lines 95-103: fs::writer or one of the two writes returns an error.
ManifestWriteError ==
    /\ pc \in {"manifest_writer", "manifest_header", "manifest_body"}
    /\ Return("err_write_manifest")
    /\ UNCHANGED <<world, stores, locals, snapshot, cycleHistory, bookkeeping>>

\* The order of the HashMap that from_manifest moves into the ledger: the
\* order line 94 serialised it in, which is the order of manifest.toml
\* unless another process has replaced that file since.
LedgerOrder ==
    IF ToSet(PackageOrder(manifestFile)) = Keys(manifest[1].packages, NoVersion)
    THEN PackageOrder(manifestFile)
    ELSE CHOOSE q \in Orders(Keys(manifest[1].packages, NoVersion)) : TRUE

\* A ledger written from the manifest that was read from disc at the start.
PackagesWriteStale ==
    /\ pc = "packages_write"
    /\ packagesFile' = File(LocalPackagesToml(from_manifest(IF stored # <<>> THEN stored[1] ELSE manifest[1]), PackageOrder(manifestFile0)))
    /\ Return("ok")
    /\ UNCHANGED <<world, manifestFile, dirs, locals, snapshot, cycleHistory, bookkeeping>>

\* Line 50 with LocalPackages::write_to_disc (lines 138-142), then Ok(()).
\* from_manifest moves the HashMap line 94 serialised, so its entries come
\* in the order they have in manifest.toml.
PackagesWrite ==
    /\ pc = "packages_write"
    /\ packagesFile' = File(LocalPackagesToml(from_manifest(manifest[1]), LedgerOrder))
    /\ Return("ok")
    /\ UNCHANGED <<world, manifestFile, dirs, locals, snapshot, cycleHistory, bookkeeping>>

\* Line 141: fs::write returns an error.
PackagesWriteError ==
    /\ pc = "packages_write"
    /\ Return("err_write_ledger")
    /\ UNCHANGED <<world, stores, locals, snapshot, cycleHistory, bookkeeping>>

\* The process dies at any point of a running cycle.
Crash ==
    /\ pc # "idle"
    /\ crashedAt' = pc
    /\ Return("crashed")
    /\ UNCHANGED <<world, stores, locals, snapshot, cycleHistory, touched, prev, cycles>>

\* ------------------------------------------------------------ environment
\* One edit between two invocations of the command. The record of the
\* finished cycle is dropped: it describes the stores before the edit.
Edit(what) ==
    /\ pc = "idle" /\ cycles \in 1..(MaxCycles - 1) /\ touched = {}
    /\ touched' = {what}
    /\ result' = Outcome(result)
    /\ manifest' = <<>> /\ extra' = <<>> /\ pending' = {} /\ count' = 0
    /\ stored' = <<>> /\ resolverCalls' = 0 /\ lookups' = 0 /\ extraAll' = <<>>
    /\ deleted' = {} /\ deleteFailed' = {} /\ downloaded' = {} /\ acquireFailed' = {}
    /\ crashedAt' = ""
    /\ manifestFile0' = manifestFile' /\ packagesFile0' = packagesFile' /\ dirs0' = dirs'
    /\ UNCHANGED <<pc, prev, cycles>>

\* gleam.toml is edited between two invocations.
ChangeConfig ==
    /\ config' \in ReqMaps \ {config}
    /\ UNCHANGED <<registry, other, stores>>
    /\ Edit("config")

\* A new version of a package is published on Hex.
Publish ==
    /\ \E n \in Names : registry[n] < MaxVersion /\ registry' = [registry EXCEPT ![n] = registry[n] + 1]
    /\ UNCHANGED <<config, other, stores>>
    /\ Edit("registry")

\* manifest.toml is edited by hand into something that is not a manifest.
DamageManifest ==
    /\ manifestFile.exists
    /\ manifestFile' = File(manifestFile.lines \o <<Junk>>)
    /\ UNCHANGED <<world, packagesFile, dirs>>
    /\ Edit("manifest")

\* packages.toml is edited by hand into something that is not a ledger.
DamagePackages ==
    /\ packagesFile.exists
    /\ packagesFile' = File(packagesFile.lines \o <<Junk>>)
    /\ UNCHANGED <<world, manifestFile, dirs>>
    /\ Edit("ledger")

\* packages.toml is removed.
RemovePackagesFile ==
    /\ packagesFile.exists
    /\ packagesFile' = NoFile
    /\ UNCHANGED <<world, manifestFile, dirs>>
    /\ Edit("ledger")

Next ==
    \/ DownloadBegin \/ DownloadConfigError
    \/ GetManifestNotPresent \/ GetManifestParseError \/ GetManifestReadError
    \/ GetManifestUpToDate \/ GetManifestOutdated
    \/ RemoveExtraNoLedger \/ RemoveExtraParseError \/ RemoveExtraReadError \/ RemoveExtraRead
    \/ PruneSkip \/ PruneDelete \/ PruneDeleteError
    \/ DownloadSkip \/ DownloadPackage \/ DownloadError \/ DownloadDone
    \/ ManifestOpenWriter \/ ManifestWriteHeader \/ ManifestWriteBody \/ ManifestWriteError
    \/ PackagesWrite \/ PackagesWriteError
    \/ Crash
    \/ ChangeConfig \/ Publish \/ DamageManifest \/ DamagePackages \/ RemovePackagesFile

Spec == Init /\ [][Next]_vars

\* ----------------------------------------------------------------- claims
FilesAsBefore == manifestFile = manifestFile0 /\ packagesFile = packagesFile0
Materialised(m) == \A n \in Names : m.packages[n] # NoVersion => dirs[n] = m.packages[n]

\* C1: when the acquisition of a package of the resolved manifest fails,
\* download returns the acquisition error and manifest.toml and
\* packages.toml hold what they held when the cycle began.
C1_FailedAcquisitionWritesNothing ==
    acquireFailed # {} => pc = "idle" /\ result = "err_acquire" /\ FilesAsBefore

\* A cycle that resolved a manifest other than the stored one and then
\* failed to acquire a package.
C1_Witness ==
    /\ result = "err_acquire" /\ acquireFailed # {}
    /\ manifestFile0.exists /\ packagesFile0.exists
    /\ manifest # ParseManifest(manifestFile0)

\* C2: in a running cycle manifest.toml and packages.toml change only when
\* every package of the manifest is unpacked on disc, and a crash between
\* resolution and the end of acquisition leaves both files as they were.
C2_WriteStep ==
    (pc # "idle" /\ (manifestFile' # manifestFile \/ packagesFile' # packagesFile))
        => (manifest # <<>> /\ pending = {} /\ Materialised(manifest[1]))
C2_CrashBeforeWrites ==
    (result = "crashed" /\ crashedAt \in {"get_manifest", "remove_extra_packages", "prune", "download_hex_packages"})
        => FilesAsBefore
C2_PersistenceFollowsAcquisition == [][C2_WriteStep]_vars /\ []C2_CrashBeforeWrites

\* A crash in the middle of acquisition, after the package directories
\* changed, with both files present.
C2_Witness ==
    /\ result = "crashed" /\ crashedAt = "download_hex_packages"
    /\ dirs # dirs0 /\ pending # {}
    /\ manifestFile0.exists /\ packagesFile0.exists
    /\ manifest # ParseManifest(manifestFile0)

\* C3 as claimed: a failed delete_dir does not abort the cycle.
C3_PruningErrorsNonFatal ==
    (deleteFailed # {} /\ pc = "idle") => result # "err_delete"

\* C3 as amended: a failed delete_dir ends the cycle at once with the
\* deletion error; the stale packages not yet visited keep their
\* directories, nothing is downloaded and neither file is written.
C3_PruningErrorsFatal ==
    deleteFailed # {} =>
        /\ pc = "idle" /\ result = "err_delete"
        /\ extra # <<>> /\ extra[1][1] \in deleteFailed
        /\ \A i \in 1..Len(extra) : extra[i][1] \notin deleted /\ dirs[extra[i][1]] = dirs0[extra[i][1]]
        /\ downloaded = {} /\ FilesAsBefore

\* A failed deletion with another stale package still unpacked.
C3_Witness ==
    /\ result = "err_delete" /\ Len(extra) >= 2
    /\ dirs[extra[2][1]] # NoVersion

\* ------------------------------------- extra_local_packages on any input
\* Any ledger file against any manifest, at the call of line 62.
InitExtra ==
    /\ config = EmptyReqs
    /\ registry = [n \in Names |-> MaxVersion]
    /\ other = NoOther
    /\ manifest \in {<<[requirements |-> EmptyReqs, packages |-> p]>> : p \in PkgMaps}
    /\ packagesFile \in UNION {LocalPackagesFiles([packages |-> p]) : p \in PkgMaps}
    /\ manifestFile = NoFile /\ dirs = EmptyPkgs
    /\ pc = "remove_extra_packages" /\ result = "running"
    /\ extra = <<>> /\ pending = {} /\ count = 0
    /\ manifestFile0 = manifestFile /\ packagesFile0 = packagesFile /\ dirs0 = dirs
    /\ stored = <<>> /\ resolverCalls = 0 /\ lookups = 0 /\ extraAll = <<>>
    /\ deleted = {} /\ deleteFailed = {} /\ downloaded = {} /\ acquireFailed = {}
    /\ crashedAt = "" /\ touched = {} /\ prev = NoPrev /\ cycles = 1

NextExtra == RemoveExtraRead

SpecExtra == InitExtra /\ [][NextExtra]_vars

Ledger0 == ParseLocalPackages(packagesFile0)[1].packages
StalePairs(l, m) == {<<n, VersionToString(l[n])>> : n \in {k \in Names : l[k] # NoVersion /\ (m[k] = NoVersion \/ m[k] # l[k])}}

\* C4: extra_local_packages returns, in whatever order the ledger is
\* iterated, exactly the pairs (n, v) of the ledger for which the manifest
\* has no entry for n or another version, each once.
C4_ExtraIsSetDifference ==
    pc # "remove_extra_packages" =>
        /\ ToSet(extraAll) = StalePairs(Ledger0, manifest[1].packages)
        /\ Len(extraAll) = Cardinality(StalePairs(Ledger0, manifest[1].packages))

\* One package kept, one stale because the manifest selects another version.
C4_Witness ==
    /\ pc # "remove_extra_packages" /\ Len(extraAll) = 1
    /\ manifest[1].packages[extraAll[1][1]] # NoVersion
    /\ \E n \in Names : Ledger0[n] # NoVersion /\ manifest[1].packages[n] = Ledger0[n]

\* ------------------------------------------------------ claims, continued
\* The cycle before this one succeeded from no manifest.toml and nothing
\* was edited since.
SecondRun == prev.result = "ok" /\ prev.fresh /\ prev.edited = "nothing" /\ touched = {} /\ cycles >= 2

\* C5 as claimed: the second run leaves manifest.toml byte for byte as the
\* first run wrote it.
C5_SecondRunSameBytes ==
    (SecondRun /\ pc = "idle" /\ result = "ok") => manifestFile = manifestFile0

\* C5 as amended: a first run without manifest.toml resolves; a second run
\* with nothing changed calls neither the resolver nor the registry,
\* returns the stored manifest, and the file it writes holds the same
\* requirements and packages as the file of the first run.
C5_ReuseIdempotent ==
    /\ (~manifestFile0.exists /\ manifest # <<>>) => resolverCalls = 1
    /\ SecondRun =>
          /\ resolverCalls = 0 /\ lookups = 0
          /\ manifest # <<>> => manifest = ParseManifest(manifestFile0)
          /\ (pc = "idle" /\ result = "ok") =>
                /\ ParseManifest(manifestFile) = ParseManifest(manifestFile0)
                /\ ParseManifest(manifestFile) = manifest

\* A second run that succeeded with a manifest of two packages.
C5_Witness ==
    /\ SecondRun /\ pc = "idle" /\ result = "ok"
    /\ Cardinality(Keys(manifest[1].packages, NoVersion)) = 2
    /\ manifestFile # manifestFile0

\* C6: a stored manifest whose requirements differ from the current ones is
\* never returned; resolve_versions runs against the current requirements
\* and the manifest returned records them, with the packages resolved anew.
C6_ChangeTriggersResolution ==
    (stored # <<>> /\ stored[1].requirements # config) =>
        /\ resolverCalls = 1
        /\ manifest = <<>> => (pc = "idle" /\ result \in {"err_resolve", "crashed"})
        /\ manifest # <<>> =>
              /\ manifest # stored
              /\ manifest[1].requirements = config
              /\ manifest = <<[requirements |-> config, packages |-> hex_resolve_versions(config, registry)[1]]>>

\* The same names are required, one constraint differs.
C6_Witness ==
    /\ stored # <<>> /\ manifest # <<>> /\ stored[1].requirements # config
    /\ Keys(stored[1].requirements, NoRange) = Keys(config, NoRange)
    /\ stored[1].packages # manifest[1].packages

Unparsed(file, parsed) == file.exists /\ parsed = <<>>
ErrorResults == {"err_config", "err_read_manifest", "err_parse_manifest", "err_read_ledger", "err_parse_ledger", "crashed"}

\* C7: a manifest.toml or packages.toml that exists and does not parse ends
\* the cycle with an error; with such a manifest nothing is resolved, and
\* with either no directory is deleted, no package downloaded, no file
\* written.
C7_ParseErrorsFatal ==
    /\ (touched = {} /\ Unparsed(manifestFile0, ParseManifest(manifestFile0))) =>
          /\ pc \in {"idle", "get_manifest"}
          /\ manifest = <<>> /\ resolverCalls = 0 /\ lookups = 0
          /\ deleted = {} /\ downloaded = {} /\ dirs = dirs0 /\ FilesAsBefore
          /\ (pc = "idle" /\ result # "none") => result \in ErrorResults
    /\ (touched = {} /\ Unparsed(packagesFile0, ParseLocalPackages(packagesFile0))) =>
          /\ pc \in {"idle", "get_manifest", "remove_extra_packages"}
          /\ deleted = {} /\ downloaded = {} /\ dirs = dirs0 /\ FilesAsBefore
          /\ (pc = "idle" /\ result # "none") => result \in ErrorResults \cup {"err_resolve"}
    /\ result = "err_parse_manifest" => Unparsed(manifestFile0, ParseManifest(manifestFile0))
    /\ result = "err_parse_ledger" => Unparsed(packagesFile0, ParseLocalPackages(packagesFile0))

\* A damaged manifest.toml of a project that requires packages.
C7_Witness ==
    /\ result = "err_parse_manifest" /\ Keys(config, NoRange) # {}
    /\ cycles >= 2 /\ packagesFile0.exists

\* C8: a failure of resolve_versions ends the cycle before anything else
\* happens: no manifest is returned, no directory deleted, no package
\* downloaded, no file written.
C8_ResolutionFailureAborts ==
    (result = "err_resolve" \/ (resolverCalls > 0 /\ ~Solvable(config, registry))) =>
        /\ pc = "idle" /\ result = "err_resolve"
        /\ manifest = <<>>
        /\ deleted = {} /\ downloaded = {} /\ dirs = dirs0 /\ FilesAsBefore

\* No version set satisfies the requirements of an installed project.
C8_Witness ==
    /\ result = "err_resolve" /\ ~Solvable(config, registry)
    /\ manifestFile0.exists /\ packagesFile0.exists /\ dirs # EmptyPkgs
    /\ \E n \in Names : Candidates(config, registry, n) # {} /\ config[n] # NoRange

\* C9: at every point manifest.toml is the complete file of the cycle's
\* start or a complete file of the new manifest, and packages.toml likewise.
C9_AtomicPersistence ==
    /\ manifestFile = manifestFile0 \/ (manifest # <<>> /\ manifestFile \in ManifestFiles(manifest[1]))
    /\ packagesFile = packagesFile0 \/ (manifest # <<>> /\ packagesFile \in LocalPackagesFiles(from_manifest(manifest[1])))

\* The cycle before this one failed in acquisition and gleam.toml was not
\* edited since.
Retry == prev.result = "err_acquire" /\ prev.edited # "config" /\ touched = {} /\ pc = "idle"
Consistent ==
    /\ ParseManifest(manifestFile) # <<>> /\ ParseLocalPackages(packagesFile) # <<>>
    /\ ParseManifest(manifestFile)[1].requirements = config
    /\ ParseLocalPackages(packagesFile)[1].packages = ParseManifest(manifestFile)[1].packages
    /\ (packagesFile0.exists /\ ParseLocalPackages(packagesFile0) # <<>>) =>
          \A n \in Names : (Ledger0[n] # NoVersion /\ ParseManifest(manifestFile)[1].packages[n] # Ledger0[n]) => dirs[n] # Ledger0[n]

InitRoundTrip ==
    /\ config = EmptyReqs
    /\ registry = [n \in Names |-> MaxVersion]
    /\ other = NoOther
    /\ manifest \in {<<m>> : m \in Manifest}
    /\ manifestFile \in {NoFile, File(ManifestHeader \o ManifestToml(InstalledManifest, InstalledOrder, InstalledOrder))}
    /\ packagesFile = NoFile /\ dirs = EmptyPkgs
    /\ pc = "manifest_writer" /\ result = "running"
    /\ extra = <<>> /\ pending = {} /\ count = 0
    /\ manifestFile0 = manifestFile /\ packagesFile0 = packagesFile /\ dirs0 = dirs
    /\ stored = <<>> /\ resolverCalls = 0 /\ lookups = 0 /\ extraAll = <<>>
    /\ deleted = {} /\ deleteFailed = {} /\ downloaded = {} /\ acquireFailed = {}
    /\ crashedAt = "" /\ touched = {} /\ prev = NoPrev /\ cycles = 1

\* Manifest::read_from_disc (lines 79-90) called on the file just written.
ReadFromDisc ==
    /\ pc = "packages_write"
    /\ stored' = ParseManifest(manifestFile)
    /\ Return(IF ParseManifest(manifestFile) = <<>> THEN "err_parse_manifest" ELSE "ok")
    /\ UNCHANGED <<world, stores, locals, snapshot, resolverCalls, lookups, extraAll, deleted, deleteFailed, downloaded, acquireFailed, bookkeeping>>

NextRoundTrip == ManifestOpenWriter \/ ManifestWriteHeader \/ ManifestWriteBody \/ ReadFromDisc

SpecRoundTrip == InitRoundTrip /\ [][NextRoundTrip]_vars

\* C11: read_from_disc on the file write_to_disc produced for a manifest
\* returns a manifest with the same requirements and the same packages; the
\* header comment of the file has no part in the result.
C11_RoundTrip ==
    /\ pc = "packages_write" =>
          /\ ParseManifest(manifestFile) = manifest
          /\ ParseManifest(File(SubSeq(manifestFile.lines, Len(ManifestHeader) + 1, Len(manifestFile.lines)))) = manifest
    /\ pc = "idle" =>
          /\ result = "ok" /\ stored # <<>>
          /\ stored[1].requirements = manifest[1].requirements
          /\ stored[1].packages = manifest[1].packages

\* A manifest with two requirements and two packages of different versions,
\* written over an older file and read back.
C11_Witness ==
    /\ pc = "idle" /\ stored = manifest /\ manifestFile0.exists
    /\ Cardinality(Keys(manifest[1].requirements, NoRange)) = 2
    /\ \E n, k \in Names : manifest[1].packages[n] \notin {NoVersion, manifest[1].packages[k]} /\ manifest[1].packages[k] # NoVersion

\* ------------------------------------------------------ claims, continued
\* download returned, with Ok or with an error, and nothing was edited since.
Ended == pc = "idle" /\ touched = {} /\ result \notin {"none", "other", "running", "crashed"}
\* Every pair a parseable ledger file lists has its directory with that
\* version unpacked.
Describes(file, disc) ==
    (file.exists /\ ParseLocalPackages(file) # <<>>) =>
        \A n \in Names : ParseLocalPackages(file)[1].packages[n] # NoVersion => disc[n] = ParseLocalPackages(file)[1].packages[n]

\* C12: when a cycle that began with packages.toml describing the package
\* directories has ended, with success or with an error, every pair listed
\* in packages.toml still has its directory on disc.
C12_LedgerDescribesDisc ==
    (Ended /\ Describes(packagesFile0, dirs0)) => Describes(packagesFile, dirs)

\* C13: every directory remove_extra_packages deletes is the directory of
\* an exact pair of the set difference: it holds the version the ledger
\* lists for the name, and that version is not the one the new manifest
\* selects; a package with the same version in ledger and manifest keeps
\* its directory.
C13_PrunesExactPairs ==
    \A n \in deleted :
        /\ <<n, VersionToString(dirs0[n])>> \in ToSet(extraAll)
        /\ dirs0[n] # manifest[1].packages[n]
        /\ Ledger0[n] # manifest[1].packages[n]

\* --------------------------- remove_extra_packages and the acquisition
\* A loop that deletes a directory only when it holds the version of the
\* pair.
PrunedExactPair(d, l, m) == [n \in Names |-> IF l.packages[n] # NoVersion /\ m.packages[n] # l.packages[n] /\ d[n] = l.packages[n] THEN NoVersion ELSE d[n]]

\* The directories after the loop of lines 62-68 has run to its end: the
\* directory of every name of the set difference is gone.
Pruned(d, l, m) == [n \in Names |-> IF l.packages[n] # NoVersion /\ m.packages[n] # l.packages[n] THEN NoVersion ELSE d[n]]

\* The directories after download_hex_packages has succeeded: every package
\* of the manifest is unpacked in the directory of its name.
Acquired(d, m) == [n \in Names |-> IF m.packages[n] # NoVersion THEN m.packages[n] ELSE d[n]]

\* Any ledger, any manifest and any package directories, at line 41 of
\* download or at the same two calls taken in the other order.
InitCommute ==
    /\ config = EmptyReqs
    /\ registry = [n \in Names |-> MaxVersion]
    /\ other = NoOther
    /\ manifest \in {<<[requirements |-> EmptyReqs, packages |-> p]>> : p \in PkgMaps}
    /\ packagesFile \in UNION {LocalPackagesFiles([packages |-> p]) : p \in PkgMaps}
    /\ manifestFile = NoFile /\ dirs \in PkgMaps
    /\ pc \in {"remove_extra_packages", "acquire_first"} /\ result = "running"
    /\ extra = <<>> /\ pending = {} /\ count = 0
    /\ manifestFile0 = manifestFile /\ packagesFile0 = packagesFile /\ dirs0 = dirs
    /\ stored = <<>> /\ resolverCalls = 0 /\ lookups = 0 /\ extraAll = <<>>
    /\ deleted = {} /\ deleteFailed = {} /\ downloaded = {} /\ acquireFailed = {}
    /\ crashedAt = "" /\ touched = {} /\ prev = NoPrev /\ cycles = 1

\* Lines 45-46 taken before line 41.
AcquireFirst ==
    /\ pc = "acquire_first"
    /\ dirs' = Acquired(dirs, manifest[1])
    /\ pc' = "prune_second"
    /\ UNCHANGED <<world, manifestFile, packagesFile, result, locals, snapshot, cycleHistory, bookkeeping>>

\* Line 41 taken after lines 45-46.
PruneSecond ==
    /\ pc = "prune_second"
    /\ dirs' = Pruned(dirs, ParseLocalPackages(packagesFile)[1], manifest[1])
    /\ pc' = "commuted"
    /\ UNCHANGED <<world, manifestFile, packagesFile, result, locals, snapshot, cycleHistory, bookkeeping>>

NextCommute ==
    \/ RemoveExtraRead \/ PruneSkip \/ PruneDelete
    \/ DownloadSkip \/ DownloadPackage \/ DownloadDone
    \/ AcquireFirst \/ PruneSecond

SpecCommute == InitCommute /\ [][NextCommute]_vars

\* The directories download leaves: pruned, then acquired.
PruneThenAcquire == Acquired(Pruned(dirs0, ParseLocalPackages(packagesFile0)[1], manifest[1]), manifest[1])
\* The names the ledger lists with one version and the manifest with another.
Moved == {n \in Names : Ledger0[n] # NoVersion /\ manifest[1].packages[n] \notin {NoVersion, Ledger0[n]}}

C15_LedgerStep ==
    /\ (pc # "idle" /\ pc' = "idle" /\ result' = "ok") => pc = "packages_write"
    /\ (pc # "idle" /\ packagesFile' # packagesFile) =>
          /\ manifest # <<>> /\ manifestFile \in ManifestFiles(manifest[1])
          /\ manifestFile' = manifestFile
C15_LedgerEqualsManifest ==
    (pc = "idle" /\ result = "ok" /\ touched = {}) =>
        /\ ParseManifest(manifestFile) = manifest
        /\ ParseLocalPackages(packagesFile) # <<>>
        /\ ParseLocalPackages(packagesFile)[1].packages = ParseManifest(manifestFile)[1].packages

\* C15: after a cycle that returned Ok the packages of packages.toml equal
\* the packages of the manifest.toml the cycle wrote, and manifest.toml was
\* written before packages.toml.
C15_Lockstep == [][C15_LedgerStep]_vars /\ []C15_LedgerEqualsManifest

\* A successful cycle that replaced an installed set of packages by another.
C15_Witness ==
    /\ pc = "idle" /\ result = "ok" /\ touched = {}
    /\ stored # <<>> /\ stored[1].packages # manifest[1].packages
    /\ packagesFile0.exists /\ packagesFile # packagesFile0
    /\ Keys(manifest[1].packages, NoVersion) # {}

\* ------------------------------------------- two invocations of download
\* A second process runs download() against the same project: it read
\* another requirement set from gleam.toml. `other` holds its position, its
\* config and its manifest; the stores are shared with the first process.
OtherReturn(r) == other' = [other EXCEPT !.pc = "idle", !.result = r]
OtherResolved ==
    IF hex_resolve_versions(other.config, registry) = <<>>
    THEN OtherReturn("err_resolve")
    ELSE other' = [other EXCEPT !.pc = "remove_extra_packages",
                                !.manifest = <<[requirements |-> other.config, packages |-> hex_resolve_versions(other.config, registry)[1]]>>]
firstProcess == <<config, registry, pc, result, locals, snapshot, cycleHistory, bookkeeping>>

\* Lines 20-36 in the second process.
OtherBegin ==
    /\ other.pc = "idle" /\ other.result = "none"
    /\ other' = [other EXCEPT !.pc = "get_manifest", !.result = "running"]
    /\ UNCHANGED <<firstProcess, stores>>

\* get_manifest (lines 181-204) in the second process.
OtherGetManifest ==
    /\ other.pc = "get_manifest"
    /\ IF ~manifestFile.exists THEN OtherResolved
       ELSE IF ParseManifest(manifestFile) = <<>> THEN OtherReturn("err_parse_manifest")
       ELSE IF ParseManifest(manifestFile)[1].requirements = other.config
            THEN other' = [other EXCEPT !.pc = "remove_extra_packages", !.manifest = ParseManifest(manifestFile)]
            ELSE OtherResolved
    /\ UNCHANGED <<firstProcess, stores>>

\* remove_extra_packages (lines 57-70) in the second process, every
\* delete_dir succeeding.
OtherRemoveExtra ==
    /\ other.pc = "remove_extra_packages"
    /\ IF ~packagesFile.exists
       THEN other' = [other EXCEPT !.pc = "download_hex_packages"] /\ dirs' = dirs
       ELSE IF ParseLocalPackages(packagesFile) = <<>>
       THEN OtherReturn("err_parse_ledger") /\ dirs' = dirs
       ELSE /\ other' = [other EXCEPT !.pc = "download_hex_packages"]
            /\ dirs' = Pruned(dirs, ParseLocalPackages(packagesFile)[1], other.manifest[1])
    /\ UNCHANGED <<firstProcess, manifestFile, packagesFile>>

\* Lines 45-46 in the second process, every package succeeding.
OtherDownload ==
    /\ other.pc = "download_hex_packages"
    /\ dirs' = Acquired(dirs, other.manifest[1])
    /\ other' = [other EXCEPT !.pc = "manifest_write"]
    /\ UNCHANGED <<firstProcess, manifestFile, packagesFile>>

\* Line 49 in the second process, taken while the first process is not
\* between the steps of its own Manifest::write_to_disc.
OtherManifestWrite ==
    /\ other.pc = "manifest_write"
    /\ pc \notin {"manifest_header", "manifest_body"}
    /\ manifestFile' \in ManifestFiles(other.manifest[1])
    /\ other' = [other EXCEPT !.pc = "packages_write"]
    /\ UNCHANGED <<firstProcess, packagesFile, dirs>>

\* A ledger written from the package directories found on disc.
OtherPackagesWriteFromDisc ==
    /\ other.pc = "packages_write"
    /\ packagesFile' \in LocalPackagesFiles([packages |-> dirs])
    /\ OtherReturn("ok")
    /\ UNCHANGED <<firstProcess, manifestFile, dirs>>

\* Line 50 in the second process, then Ok(()).
OtherPackagesWrite ==
    /\ other.pc = "packages_write"
    /\ packagesFile' \in LocalPackagesFiles(from_manifest(other.manifest[1]))
    /\ OtherReturn("ok")
    /\ UNCHANGED <<firstProcess, manifestFile, dirs>>

\* Two processes about to run download(), each with its own requirement
\* set, on a new project or on an installed one.
InitRace ==
    /\ config \in ReqMaps
    /\ registry = [n \in Names |-> IF n = "a" THEN MaxVersion ELSE 1]
    /\ other \in {[pc |-> "idle", result |-> "none", config |-> c, manifest |-> <<>>] : c \in ReqMaps \ {config}}
    /\ \/ manifestFile = NoFile /\ packagesFile = NoFile /\ dirs = EmptyPkgs
       \/ /\ manifestFile = File(ManifestHeader \o ManifestToml(InstalledManifest, InstalledOrder, InstalledOrder))
          /\ packagesFile = File(LocalPackagesToml(from_manifest(InstalledManifest), InstalledOrder))
          /\ dirs = InstalledManifest.packages
    /\ pc = "idle" /\ result = "none"
    /\ manifest = <<>> /\ extra = <<>> /\ pending = {} /\ count = 0
    /\ manifestFile0 = manifestFile /\ packagesFile0 = packagesFile /\ dirs0 = dirs
    /\ stored = <<>> /\ resolverCalls = 0 /\ lookups = 0 /\ extraAll = <<>>
    /\ deleted = {} /\ deleteFailed = {} /\ downloaded = {} /\ acquireFailed = {}
    /\ crashedAt = "" /\ touched = {} /\ prev = NoPrev /\ cycles = MaxCycles - 1

NextRace ==
    \/ DownloadBegin
    \/ GetManifestNotPresent \/ GetManifestUpToDate \/ GetManifestOutdated
    \/ RemoveExtraNoLedger \/ RemoveExtraRead
    \/ PruneSkip \/ PruneDelete
    \/ DownloadSkip \/ DownloadPackage \/ DownloadDone
    \/ ManifestOpenWriter \/ ManifestWriteHeader \/ ManifestWriteBody
    \/ PackagesWrite
    \/ OtherBegin \/ OtherGetManifest \/ OtherRemoveExtra \/ OtherDownload
    \/ OtherManifestWrite \/ OtherPackagesWrite

SpecRace == InitRace /\ [][NextRace]_vars

BothOk == pc = "idle" /\ result = "ok" /\ other.pc = "idle" /\ other.result = "ok"
Diverged ==
    /\ ParseManifest(manifestFile) # <<>> /\ ParseLocalPackages(packagesFile) # <<>>
    /\ ParseLocalPackages(packagesFile)[1].packages # ParseManifest(manifestFile)[1].packages
WrittenBy(m, l) ==
    /\ manifestFile \in ManifestFiles(m[1])
    /\ packagesFile \in LocalPackagesFiles(from_manifest(l[1]))

\* C16: two interleaved invocations with different requirement sets can
\* both return Ok and leave a packages.toml whose packages differ from
\* those of manifest.toml; whenever they do, manifest.toml is the one
\* invocation's and packages.toml the other's.
C16_RaceMixesRecords ==
    BothOk =>
        /\ WrittenBy(manifest, manifest) \/ WrittenBy(other.manifest, other.manifest)
           \/ WrittenBy(manifest, other.manifest) \/ WrittenBy(other.manifest, manifest)
        /\ Diverged => (WrittenBy(manifest, other.manifest) \/ WrittenBy(other.manifest, manifest))

\* Both invocations returned Ok, manifest.toml is the second process's and
\* packages.toml the first's, with other packages.
C16_Witness ==
    /\ BothOk /\ Diverged
    /\ manifest[1].requirements # other.manifest[1].requirements
    /\ WrittenBy(other.manifest, manifest)

\* ------------------------------------------------------ claims, continued
\* C17: when download has returned, manifest.toml and packages.toml have
\* both been written by the cycle or both hold what they held before it;
\* after an error manifest.toml holds what it held before the cycle.
C17_BothOrNeither ==
    Ended =>
        /\ result = "ok" => WrittenBy(manifest, manifest)
        /\ result # "ok" => FilesAsBefore

\* The step remove_extra_packages takes without packages.toml: Ok, nothing
\* deleted, download goes on to acquire every package of the manifest.
C18_NoLedgerStep ==
    (pc = "remove_extra_packages" /\ ~packagesFile.exists /\ pc' # pc /\ result' # "crashed") =>
        /\ pc' = "download_hex_packages" /\ result' = "running"
        /\ pending' = Keys(manifest[1].packages, NoVersion)
        /\ dirs' = dirs /\ deleted' = {}
C18_NoLedgerCycle ==
    (~packagesFile0.exists /\ touched = {} /\ manifest # <<>> /\ pc \notin {"get_manifest", "remove_extra_packages"}) =>
        /\ deleted = {} /\ deleteFailed = {} /\ extraAll = <<>>
        /\ result \notin {"err_delete", "err_read_ledger", "err_parse_ledger"}
        /\ \A n \in Names : dirs[n] = dirs0[n] \/ n \in downloaded
        /\ packagesFile # packagesFile0 => packagesFile \in LocalPackagesFiles(from_manifest(manifest[1]))
        /\ (pc = "idle" /\ result = "ok") => packagesFile \in LocalPackagesFiles(from_manifest(manifest[1]))

\* C18: without packages.toml remove_extra_packages deletes no directory
\* and returns Ok whatever is on disc and in the manifest; download goes on
\* to acquisition, and the ledger it writes equals the manifest's packages.
C18_NoLedgerNoPruning == [][C18_NoLedgerStep]_vars /\ []C18_NoLedgerCycle

\* A cycle without packages.toml, with a directory on disc the manifest has
\* no package for and one of another version, ended with Ok.
C18_Witness ==
    /\ pc = "idle" /\ result = "ok" /\ touched = {} /\ ~packagesFile0.exists
    /\ \E n \in Names : dirs0[n] # NoVersion /\ manifest[1].packages[n] = NoVersion /\ dirs[n] = dirs0[n]
    /\ \E n \in Names : dirs0[n] # NoVersion /\ manifest[1].packages[n] \notin {NoVersion, dirs0[n]}

\* The cycle before this one returned Ok and gleam.toml was not edited since.
AfterSuccess == prev.result = "ok" /\ prev.edited # "config" /\ touched = {} /\ cycles >= 2
\* delete_dir is called, with success or not, only on a directory that
\* exists.
C19_DeleteStep ==
    (pc = "prune" /\ (deleted' # deleted \/ deleteFailed' # deleteFailed)) =>
        /\ extra # <<>> /\ dirs[extra[1][1]] # NoVersion
        /\ (deleted' \cup deleteFailed') \ (deleted \cup deleteFailed) \subseteq {extra[1][1]}
C19_NothingExtra ==
    AfterSuccess =>
        /\ extraAll = <<>> /\ extra = <<>>
        /\ deleted = {} /\ deleteFailed = {}
        /\ \A n \in Names : dirs[n] = dirs0[n] \/ (n \in downloaded /\ dirs0[n] = NoVersion)

\* C19: the cycle after a successful cycle with the same requirements finds
\* no extra local package and deletes no directory, and delete_dir is never
\* called for a directory that does not exist.
C19_PruningFixedPoint == [][C19_DeleteStep]_vars /\ []C19_NothingExtra

\* The cycle after a successful one read a ledger of two packages, found
\* nothing extra and returned Ok.
C19_Witness ==
    /\ AfterSuccess /\ pc = "idle" /\ result = "ok"
    /\ packagesFile0.exists /\ Cardinality(Keys(Ledger0, NoVersion)) = 2
    /\ dirs = dirs0 /\ downloaded = {}
====
